---- MODULE Spec2Model ----
(***************************************************************************)
(* gitmeup (src/gitmeup/cli.py): one run of main().                        *)
(*                                                                         *)
(* Text is modelled as a sequence of one-character strings, so that        *)
(* str.strip, str.startswith, str.lower, str.splitlines, "\n".join and     *)
(* shlex.split are computed the way Python computes them on the alphabet   *)
(* used here (letters, backtick, space, newline, double quote, '#').       *)
(* A child process that exits reports a status in 0..255.                  *)
(***************************************************************************)
EXTENDS Integers, Sequences, FiniteSets, TLC

(* ---------------------------------------------------------------- bounds *)
\* longest fence-oriented model response, in lines
MaxLines == 5
\* longest command-oriented fenced block, in lines
MaxCmds == 3

(* --------------------------------------------------------- str primitives *)
NL == "\n"

IsSpace(c) == c \in {" ", NL}

RECURSIVE lstrip(_)
lstrip(s) ==
  IF s = <<>> THEN <<>>
  ELSE IF IsSpace(Head(s)) THEN lstrip(Tail(s)) ELSE s

RECURSIVE rstrip(_)
rstrip(s) ==
  IF s = <<>> THEN <<>>
  ELSE IF IsSpace(s[Len(s)]) THEN rstrip(SubSeq(s, 1, Len(s) - 1)) ELSE s

\* str.strip()
strip(s) == rstrip(lstrip(s))

\* str.startswith(p)
startswith(s, p) == Len(s) >= Len(p) /\ SubSeq(s, 1, Len(p)) = p

LowerChar(c) ==
  CASE c = "S" -> "s"
    [] c = "H" -> "h"
    [] OTHER -> c

\* str.lower()
lower(s) == [i \in 1..Len(s) |-> LowerChar(s[i])]

\* str.splitlines(): a line ends at a newline; no empty last line is
\* produced for a trailing newline, and "" splits to [].
RECURSIVE SplitAcc(_, _, _)
SplitAcc(s, cur, acc) ==
  IF s = <<>> THEN (IF cur = <<>> THEN acc ELSE Append(acc, cur))
  ELSE IF Head(s) = NL THEN SplitAcc(Tail(s), <<>>, Append(acc, cur))
  ELSE SplitAcc(Tail(s), Append(cur, Head(s)), acc)

splitlines(s) == SplitAcc(s, <<>>, <<>>)

\* "\n".join(ls)
RECURSIVE join(_)
join(ls) ==
  IF ls = <<>> THEN <<>>
  ELSE IF Len(ls) = 1 THEN ls[1]
  ELSE ls[1] \o <<NL>> \o join(Tail(ls))

\* shlex.split(cmd): whitespace-separated tokens, a double quote toggles
\* quoting and is dropped; an unclosed quote raises ValueError.
ValueError == [raised |-> TRUE, argv |-> <<>>]

RECURSIVE ShlexAcc(_, _, _, _, _)
ShlexAcc(s, cur, hasCur, inq, acc) ==
  IF s = <<>> THEN
    IF inq THEN ValueError
    ELSE [raised |-> FALSE, argv |-> IF hasCur THEN Append(acc, cur) ELSE acc]
  ELSE IF Head(s) = "\"" THEN ShlexAcc(Tail(s), cur, TRUE, ~inq, acc)
  ELSE IF IsSpace(Head(s)) /\ ~inq THEN
    IF hasCur THEN ShlexAcc(Tail(s), <<>>, FALSE, inq, Append(acc, cur))
    ELSE ShlexAcc(Tail(s), cur, hasCur, inq, acc)
  ELSE ShlexAcc(Tail(s), Append(cur, Head(s)), TRUE, inq, acc)

shlex_split(cmd) == ShlexAcc(cmd, <<>>, FALSE, FALSE, <<>>)

(* ------------------------------------------------------------ text inputs *)
\* the backtick character (the lexer does not accept it inside a string)
BT == "BT"

FENCE == <<BT, BT, BT>>
GIT_PREFIX == <<"g", "i", "t", " ">>
TRUE_OUT == <<"t", "r", "u", "e">>

\* lines a model response is built from
LnBash == FENCE \o <<"b", "a", "s", "h">>
LnBare == FENCE
LnPy == FENCE \o <<"p", "y">>
LnShUp == FENCE \o <<" ", "S", "H", " ">>
LnGitA == GIT_PREFIX \o <<"a">>
LnGitB == <<" ">> \o GIT_PREFIX \o <<"b", " ">>
LnComment == <<"#", " ", "c">>
LnBlank == <<>>
LnLs == <<"l", "s">>
LnGitk == <<"g", "i", "t", "k">>
LnQuote == GIT_PREFIX \o <<"\"", "c">>

FenceLines == {LnShUp, LnBare, LnPy, LnGitA}
CmdLines == {LnGitA, LnGitB, LnComment, LnBlank, LnLs, LnGitk, LnQuote}

SeqsUpTo(S, n) == UNION {[1..k -> S] : k \in 0..n}

\* what the model may reply: any text of up to MaxLines fence-oriented
\* lines, or a bash fence followed by up to MaxCmds command lines
Responses ==
  {join(ls) : ls \in SeqsUpTo(FenceLines, MaxLines)}
  \cup {join(<<LnBash>> \o ls) : ls \in SeqsUpTo(CmdLines, MaxCmds)}

\* exit statuses of a failing child process
FailCodes == {1, 128}
ReturnCodes == {0} \cup FailCodes

\* sys.exit(n) / exit status as seen by the parent
ExitStatus(n) == n % 256

ApiKeys == {"None", "", "sk"}
Models == {"gpt-4.1-mini", "other"}
RepoOutputs == {TRUE_OUT \o <<NL>>, <<"f", "a", "l", "s", "e", NL>>}
PorcelainOutputs == {<<>>, <<" ", "M", " ", "a", NL>>}

(* ------------------------------------------------------------------ state *)
VARIABLES
  pc,          \* position of main()
  api_key,     \* args.api_key ("None" when neither option nor environment)
  apply,       \* args.apply
  model,       \* args.model
  porcelain,   \* what git status --porcelain prints in this working tree
  repoCheck,   \* outcome of git rev-parse --is-inside-work-tree, once run
  gitCalls,    \* run_git invocations so far with their exit status, in order
  llmRequests, \* requests sent to the model service, in order
  raw_output,  \* text returned by call_llm
  idx,         \* extract_bash_block: position in text.splitlines()
  in_block,    \* extract_bash_block: in_block
  lang_ok,     \* extract_bash_block: lang_ok
  lines,       \* extract_bash_block: lines
  bash_block,  \* result of extract_bash_block
  commands,    \* result of parse_commands
  printed,     \* commands printed for review by run_commands
  cmdIdx,      \* run_commands: position in the execution loop
  attempted,   \* argument vectors handed to subprocess.run by run_commands
  returncodes, \* exit status of each attempted command, in order
  messages,    \* diagnostics printed, in order
  exitCode     \* <<>> while running, <<status>> once the process has ended

vars == <<pc, api_key, apply, model, porcelain, repoCheck, gitCalls,
          llmRequests, raw_output, idx, in_block, lang_ok, lines, bash_block,
          commands, printed, cmdIdx, attempted, returncodes, messages,
          exitCode>>

scanVars == <<idx, in_block, lang_ok, lines>>
runVars == <<printed, cmdIdx, attempted, returncodes>>
argVars == <<api_key, apply, model, porcelain>>

NotRun == [rc |-> 0, out |-> <<>>, ran |-> FALSE]

Init ==
  /\ pc = "start"
  /\ api_key \in ApiKeys
  /\ apply \in BOOLEAN
  /\ model \in Models
  /\ porcelain \in PorcelainOutputs
  /\ repoCheck = NotRun
  /\ gitCalls = <<>>
  /\ llmRequests = <<>>
  /\ raw_output = <<>>
  /\ idx = 1
  /\ in_block = FALSE
  /\ lang_ok = FALSE
  /\ lines = <<>>
  /\ bash_block = <<>>
  /\ commands = <<>>
  /\ printed = <<>>
  /\ cmdIdx = 1
  /\ attempted = <<>>
  /\ returncodes = <<>>
  /\ messages = <<>>
  /\ exitCode = <<>>

\* sys.exit(n), or an exception nobody catches (status 1)
Exit(n, msg) ==
  /\ pc' = "exited"
  /\ exitCode' = <<ExitStatus(n)>>
  /\ messages' = Append(messages, msg)

(* ------------------------------------------------------------------- main *)
\* main(): the credential test
CheckApiKey ==
  /\ pc = "start"
  /\ IF api_key \in {"None", ""}
     THEN Exit(1, "missing-key")
     ELSE pc' = "ensure_repo" /\ UNCHANGED <<exitCode, messages>>
  /\ UNCHANGED <<argVars, repoCheck, gitCalls, llmRequests, raw_output,
                 scanVars, bash_block, commands, runVars>>

\* ensure_repo(): run_git(["rev-parse", "--is-inside-work-tree"])
EnsureRepo ==
  /\ pc = "ensure_repo"
  /\ \E rc \in ReturnCodes, out \in RepoOutputs \cup {<<>>} :
       \* git prints its answer on success and only an error text on failure
       /\ (rc = 0) = (out # <<>>)
       /\ repoCheck' = [rc |-> rc, out |-> out, ran |-> TRUE]
       /\ gitCalls' = Append(gitCalls, [cmd |-> "rev-parse", rc |-> rc])
       /\ IF rc # 0 THEN Exit(rc, "git-error")
          ELSE IF strip(out) # TRUE_OUT THEN Exit(1, "not-a-repository")
          ELSE pc' = "porcelain" /\ UNCHANGED <<exitCode, messages>>
  /\ UNCHANGED <<argVars, llmRequests, raw_output, scanVars, bash_block,
                 commands, runVars>>

\* variant: a clean tree does not end the run
CheckClean_NoExit ==
  /\ pc = "porcelain"
  /\ \E rc \in ReturnCodes :
       /\ gitCalls' = Append(gitCalls, [cmd |-> "status --porcelain", rc |-> rc])
       /\ IF rc # 0 THEN Exit(rc, "git-error")
          ELSE pc' = "stat" /\ UNCHANGED <<exitCode, messages>>
  /\ UNCHANGED <<argVars, repoCheck, llmRequests, raw_output, scanVars,
                 bash_block, commands, runVars>>

\* main(): run_git(["status", "--porcelain"]) and the clean-tree test
CheckClean ==
  /\ pc = "porcelain"
  /\ \E rc \in ReturnCodes :
       /\ gitCalls' = Append(gitCalls, [cmd |-> "status --porcelain", rc |-> rc])
       /\ IF rc # 0 THEN Exit(rc, "git-error")
          ELSE IF strip(porcelain) = <<>> THEN Exit(0, "clean")
          ELSE pc' = "stat" /\ UNCHANGED <<exitCode, messages>>
  /\ UNCHANGED <<argVars, repoCheck, llmRequests, raw_output, scanVars,
                 bash_block, commands, runVars>>

\* one checked run_git call of collect_context()
ContextCall(at, name, next) ==
  /\ pc = at
  /\ \E rc \in ReturnCodes :
       /\ gitCalls' = Append(gitCalls, [cmd |-> name, rc |-> rc])
       /\ IF rc # 0 THEN Exit(rc, "git-error")
          ELSE pc' = next /\ UNCHANGED <<exitCode, messages>>
  /\ UNCHANGED <<argVars, repoCheck, llmRequests, raw_output, scanVars,
                 bash_block, commands, runVars>>

DiffStat == ContextCall("stat", "diff --stat", "short")
StatusShort == ContextCall("short", "status --short", "diff")
Diff == ContextCall("diff", "diff", "llm")

\* variant: a failed request is sent again
CallLlm_Retry ==
  /\ pc = "llm"
  /\ Len(llmRequests) < 2
  /\ llmRequests' = Append(llmRequests, model)
  /\ \/ \E text \in Responses :
          /\ raw_output' = text
          /\ pc' = "extract"
     \/ UNCHANGED <<raw_output, pc>>
  /\ UNCHANGED <<argVars, repoCheck, gitCalls, scanVars, bash_block,
                 commands, runVars, exitCode, messages>>

\* call_llm(): one request; the reply is any text, or the client raises
CallLlm ==
  /\ pc = "llm"
  /\ llmRequests' = Append(llmRequests, model)
  /\ \/ \E text \in Responses :
          /\ raw_output' = text
          /\ pc' = "extract"
          /\ UNCHANGED <<exitCode, messages>>
     \/ Exit(1, "llm-exception") /\ UNCHANGED raw_output
  /\ UNCHANGED <<argVars, repoCheck, gitCalls, scanVars, bash_block,
                 commands, runVars>>

(* ----------------------------------------------------- extract_bash_block *)
\* variant: every tag is accepted
LangOk_AnyTag(line) == TRUE

\* the opening-fence test on the language tag
LangOk(line) ==
  LET fence == strip(line)
      lang == strip(SubSeq(fence, 4, Len(fence)))
  IN lang = <<>> \/ lower(lang) \in {<<"b", "a", "s", "h">>, <<"s", "h">>,
                                     <<"s", "h", "e", "l", "l">>}

textLines == splitlines(raw_output)

\* return "\n".join(lines).strip(), back in main()
ReturnBlock ==
  /\ bash_block' = strip(join(lines))
  /\ pc' = "extracted"

\* a fence line while not in a block: open it, accepted or not by its tag
ScanOpenFence ==
  /\ pc = "extract"
  /\ idx <= Len(textLines)
  /\ startswith(textLines[idx], FENCE)
  /\ ~in_block
  /\ lang_ok' = LangOk(textLines[idx])
  /\ in_block' = TRUE
  /\ idx' = idx + 1
  /\ UNCHANGED <<pc, argVars, repoCheck, gitCalls, llmRequests, raw_output,
                 lines, bash_block, commands, runVars, messages, exitCode>>

\* variant: a closing fence of a rejected block resumes the search
ScanCloseFence_Resume ==
  /\ pc = "extract"
  /\ idx <= Len(textLines)
  /\ startswith(textLines[idx], FENCE)
  /\ in_block
  /\ IF lang_ok
     THEN ReturnBlock /\ UNCHANGED scanVars
     ELSE /\ in_block' = FALSE
          /\ idx' = idx + 1
          /\ UNCHANGED <<pc, bash_block, lang_ok, lines>>
  /\ UNCHANGED <<argVars, repoCheck, gitCalls, llmRequests, raw_output,
                 commands, runVars, messages, exitCode>>

\* a fence line while in a block: break
ScanCloseFence ==
  /\ pc = "extract"
  /\ idx <= Len(textLines)
  /\ startswith(textLines[idx], FENCE)
  /\ in_block
  /\ ReturnBlock
  /\ UNCHANGED <<argVars, repoCheck, gitCalls, llmRequests, raw_output,
                 scanVars, commands, runVars, messages, exitCode>>

\* any other line inside an accepted block is kept
ScanAccumulate ==
  /\ pc = "extract"
  /\ idx <= Len(textLines)
  /\ ~startswith(textLines[idx], FENCE)
  /\ in_block /\ lang_ok
  /\ lines' = Append(lines, textLines[idx])
  /\ idx' = idx + 1
  /\ UNCHANGED <<pc, argVars, repoCheck, gitCalls, llmRequests, raw_output,
                 in_block, lang_ok, bash_block, commands, runVars, messages,
                 exitCode>>

\* any other line elsewhere is passed over
ScanSkip ==
  /\ pc = "extract"
  /\ idx <= Len(textLines)
  /\ ~startswith(textLines[idx], FENCE)
  /\ ~(in_block /\ lang_ok)
  /\ idx' = idx + 1
  /\ UNCHANGED <<pc, argVars, repoCheck, gitCalls, llmRequests, raw_output,
                 in_block, lang_ok, lines, bash_block, commands, runVars,
                 messages, exitCode>>

\* the text is exhausted
ScanEnd ==
  /\ pc = "extract"
  /\ idx > Len(textLines)
  /\ ReturnBlock
  /\ UNCHANGED <<argVars, repoCheck, gitCalls, llmRequests, raw_output,
                 scanVars, commands, runVars, messages, exitCode>>

(* --------------------------------------------------------- parse_commands *)
\* variant: the prefix is tested without its trailing space
RECURSIVE ParseAcc_NoSpace(_, _)
ParseAcc_NoSpace(ls, cmds) ==
  IF ls = <<>> THEN cmds
  ELSE LET line == strip(Head(ls)) IN
    IF line = <<>> THEN ParseAcc_NoSpace(Tail(ls), cmds)
    ELSE IF startswith(line, <<"#">>) THEN ParseAcc_NoSpace(Tail(ls), cmds)
    ELSE IF ~startswith(line, <<"g", "i", "t">>) THEN ParseAcc_NoSpace(Tail(ls), cmds)
    ELSE ParseAcc_NoSpace(Tail(ls), Append(cmds, line))

RECURSIVE ParseAcc(_, _)
ParseAcc(ls, cmds) ==
  IF ls = <<>> THEN cmds
  ELSE LET line == strip(Head(ls)) IN
    IF line = <<>> THEN ParseAcc(Tail(ls), cmds)
    ELSE IF startswith(line, <<"#">>) THEN ParseAcc(Tail(ls), cmds)
    ELSE IF ~startswith(line, GIT_PREFIX) THEN ParseAcc(Tail(ls), cmds)
    ELSE ParseAcc(Tail(ls), Append(cmds, line))

parse_commands(cmd_block) == ParseAcc(splitlines(cmd_block), <<>>)

\* main(): the empty-block test, then parse_commands
CheckBlock ==
  /\ pc = "extracted"
  /\ IF bash_block = <<>>
     THEN Exit(1, "extract-failed") /\ UNCHANGED commands
     ELSE /\ commands' = parse_commands(bash_block)
          /\ pc' = "run"
          /\ UNCHANGED <<exitCode, messages>>
  /\ UNCHANGED <<argVars, repoCheck, gitCalls, llmRequests, raw_output,
                 scanVars, bash_block, runVars>>

(* ----------------------------------------------------------- run_commands *)
\* variant: an empty list is fatal
RunNoCommands_Fatal ==
  /\ pc = "run"
  /\ commands = <<>>
  /\ Exit(1, "no-commands")
  /\ UNCHANGED <<argVars, repoCheck, gitCalls, llmRequests, raw_output,
                 scanVars, bash_block, commands, runVars>>

\* empty list: report and return
RunNoCommands ==
  /\ pc = "run"
  /\ commands = <<>>
  /\ messages' = Append(messages, "no-commands")
  /\ pc' = "final"
  /\ UNCHANGED <<argVars, repoCheck, gitCalls, llmRequests, raw_output,
                 scanVars, bash_block, commands, runVars, exitCode>>

\* variant: the apply flag is not consulted
RunDryRun_Executes ==
  /\ pc = "run"
  /\ commands # <<>>
  /\ ~apply
  /\ printed' = commands
  /\ messages' = Append(messages, "executing")
  /\ pc' = "exec"
  /\ UNCHANGED <<argVars, repoCheck, gitCalls, llmRequests, raw_output,
                 scanVars, bash_block, commands, cmdIdx, attempted,
                 returncodes, exitCode>>

\* print the commands; without --apply stop there
RunDryRun ==
  /\ pc = "run"
  /\ commands # <<>>
  /\ ~apply
  /\ printed' = commands
  /\ messages' = Append(messages, "dry-run")
  /\ pc' = "final"
  /\ UNCHANGED <<argVars, repoCheck, gitCalls, llmRequests, raw_output,
                 scanVars, bash_block, commands, cmdIdx, attempted,
                 returncodes, exitCode>>

\* print the commands; with --apply enter the execution loop
RunApply ==
  /\ pc = "run"
  /\ commands # <<>>
  /\ apply
  /\ printed' = commands
  /\ messages' = Append(messages, "executing")
  /\ pc' = "exec"
  /\ UNCHANGED <<argVars, repoCheck, gitCalls, llmRequests, raw_output,
                 scanVars, bash_block, commands, cmdIdx, attempted,
                 returncodes, exitCode>>

\* variant: a failing command does not stop the loop
ExecCommand_KeepGoing ==
  /\ pc = "exec"
  /\ cmdIdx <= Len(commands)
  /\ LET split == shlex_split(commands[cmdIdx]) IN
       IF split.raised
       THEN Exit(1, "value-error") /\ UNCHANGED <<cmdIdx, attempted, returncodes>>
       ELSE /\ attempted' = Append(attempted, split.argv)
            /\ \E rc \in ReturnCodes :
                 /\ returncodes' = Append(returncodes, rc)
                 /\ cmdIdx' = cmdIdx + 1
                 /\ UNCHANGED <<pc, exitCode, messages>>
  /\ UNCHANGED <<argVars, repoCheck, gitCalls, llmRequests, raw_output,
                 scanVars, bash_block, commands, printed>>

\* one iteration: subprocess.run(shlex.split(cmd), check=True)
ExecCommand ==
  /\ pc = "exec"
  /\ cmdIdx <= Len(commands)
  /\ LET split == shlex_split(commands[cmdIdx]) IN
       IF split.raised
       THEN Exit(1, "value-error") /\ UNCHANGED <<cmdIdx, attempted, returncodes>>
       ELSE /\ attempted' = Append(attempted, split.argv)
            /\ \E rc \in ReturnCodes :
                 /\ returncodes' = Append(returncodes, rc)
                 /\ IF rc # 0
                    THEN Exit(rc, "command-failed") /\ UNCHANGED cmdIdx
                    ELSE /\ cmdIdx' = cmdIdx + 1
                         /\ UNCHANGED <<pc, exitCode, messages>>
  /\ UNCHANGED <<argVars, repoCheck, gitCalls, llmRequests, raw_output,
                 scanVars, bash_block, commands, printed>>

\* the loop is over: every command succeeded
ExecDone ==
  /\ pc = "exec"
  /\ cmdIdx > Len(commands)
  /\ messages' = Append(messages, "executed")
  /\ pc' = "final"
  /\ UNCHANGED <<argVars, repoCheck, gitCalls, llmRequests, raw_output,
                 scanVars, bash_block, commands, runVars, exitCode>>

\* main(): run_git(["status", "-sb"], check=False), whose exit status is
\* ignored, then the end of main
FinalStatus ==
  /\ pc = "final"
  /\ \E rc \in ReturnCodes :
       gitCalls' = Append(gitCalls, [cmd |-> "status -sb", rc |-> rc])
  /\ Exit(0, "final-status")
  /\ UNCHANGED <<argVars, repoCheck, llmRequests, raw_output, scanVars,
                 bash_block, commands, runVars>>

Next ==
  \/ CheckApiKey
  \/ EnsureRepo
  \/ CheckClean
  \/ DiffStat
  \/ StatusShort
  \/ Diff
  \/ CallLlm
  \/ ScanOpenFence
  \/ ScanCloseFence
  \/ ScanAccumulate
  \/ ScanSkip
  \/ ScanEnd
  \/ CheckBlock
  \/ RunNoCommands
  \/ RunDryRun
  \/ RunApply
  \/ ExecCommand
  \/ ExecDone
  \/ FinalStatus

Spec == Init /\ [][Next]_vars

TypeOK ==
  /\ pc \in {"start", "ensure_repo", "porcelain", "stat", "short", "diff",
             "llm", "extract", "extracted", "run", "exec", "final", "exited"}
  /\ (pc = "exited") = (exitCode # <<>>)
  /\ Len(exitCode) <= 1

(* ----------------------------------------------------------------- claims *)
Exited == pc = "exited"

Last(sq) == sq[Len(sq)]

\* the model service has answered and main() holds its text
Received == llmRequests # <<>> /\ pc # "llm" /\ Last(messages \o <<"-">>) # "llm-exception"

\* extract_bash_block has returned
Extracted == Received /\ pc # "extract"

\* parse_commands has returned
Parsed == Extracted /\ pc # "extracted" /\ bash_block # <<>>

GitCmds == [i \in 1..Len(gitCalls) |-> gitCalls[i].cmd]

IsFence(line) == startswith(line, FENCE)

\* the tag after the fence marker is empty, bash, sh or shell, in any case
ShellTagged(line) ==
  LET tag == lower(strip(SubSeq(line, 4, Len(line))))
  IN tag \in {<<>>, <<"b", "a", "s", "h">>, <<"s", "h">>, <<"s", "h", "e", "l", "l">>}

SetMin(S) == CHOOSE x \in S : \A y \in S : x <= y

\* Fenced blocks of a text: fence lines pair up in order, the 1st, 3rd, ...
\* open a block, which the next fence line (of any kind) or the end of the
\* text closes.  A block is given as <<line of its opening fence, line after
\* its last inner line>>.
FencePos(ls) == {i \in 1..Len(ls) : IsFence(ls[i])}

RankOf(ls, i) == Cardinality({j \in FencePos(ls) : j <= i})

Openers(ls) == {i \in FencePos(ls) : RankOf(ls, i) % 2 = 1}

CloserOf(ls, o) ==
  LET later == {j \in FencePos(ls) : j > o}
  IN IF later = {} THEN Len(ls) + 1 ELSE SetMin(later)

InnerText(ls, o) == strip(join(SubSeq(ls, o + 1, CloserOf(ls, o) - 1)))

ShellOpeners(ls) == {o \in Openers(ls) : ShellTagged(ls[o])}

HasShellBlock(text) == ShellOpeners(splitlines(text)) # {}

FirstShellBlockText(text) ==
  LET ls == splitlines(text) IN InnerText(ls, SetMin(ShellOpeners(ls)))

\* C1: in apply mode the commands run in list order, one at a time; when
\* the k-th is the first to exit non-zero, exactly commands 1..k were
\* attempted, none after it ever is, and the process ends with the k-th
\* command's exit status.
C1_ApplyFailFast ==
  (apply /\ commands # <<>>) =>
    /\ Len(attempted) <= Len(commands)
    /\ Len(returncodes) = Len(attempted)
    /\ \A i \in 1..Len(attempted) : attempted[i] = shlex_split(commands[i]).argv
    /\ \A k \in 1..Len(returncodes) :
         returncodes[k] # 0 =>
           /\ Len(attempted) = k
           /\ \A j \in 1..(k - 1) : returncodes[j] = 0
           /\ Exited
           /\ exitCode = <<returncodes[k]>>

C1_Witness ==
  /\ apply
  /\ Len(commands) = 3
  /\ returncodes = <<0, 128>>
  /\ Len(attempted) = 2
  /\ exitCode = <<128>>

TreeClean == strip(porcelain) = <<>>

\* C2 as stated: a clean working tree means no model request and exit
\* status 0, whatever the apply flag, the model option and the credential.
C2_CleanAlwaysExitsZero ==
  (TreeClean /\ Exited) => (llmRequests = <<>> /\ exitCode = <<0>>)

PorcelainSucceeded ==
  \E i \in 1..Len(gitCalls) : gitCalls[i] = [cmd |-> "status --porcelain", rc |-> 0]

\* C2 amended: a clean working tree never leads to a model request; and
\* when the run has a credential, passes the repository check and git
\* status --porcelain itself exits zero, the process ends with status 0.
C2_CleanTreeNoOp ==
  TreeClean =>
    /\ llmRequests = <<>>
    /\ PorcelainSucceeded => (Exited /\ exitCode = <<0>> /\ Len(gitCalls) = 2)

C2_Witness ==
  /\ TreeClean
  /\ apply
  /\ model = "other"
  /\ PorcelainSucceeded
  /\ exitCode = <<0>>

\* C3: without --apply no parsed command is ever run as a subprocess; the
\* commands are only printed.
C3_DryRunNeverExecutes ==
  ~apply =>
    /\ attempted = <<>>
    /\ returncodes = <<>>
    /\ pc # "exec"
    /\ (Parsed /\ commands # <<>> /\ pc # "run") =>
         (printed = commands /\ "dry-run" \in {messages[i] : i \in 1..Len(messages)})

C3_Witness ==
  /\ ~apply
  /\ Exited
  /\ Len(commands) = 3
  /\ printed = commands

RepoCheckFailed ==
  repoCheck.ran /\ (repoCheck.rc # 0 \/ strip(repoCheck.out) # TRUE_OUT)

\* C4: when the repository check exits non-zero or prints something other
\* than "true", the run ends with exit status 1 before any context
\* gathering or model request.
C4_NotRepoExitsOne ==
  RepoCheckFailed =>
    /\ Exited
    /\ exitCode = <<1>>
    /\ GitCmds = <<"rev-parse">>
    /\ llmRequests = <<>>

\* C5: a response with no fenced block opened by an accepted tag extracts
\* to the empty string, and main ends with status 1 having parsed and
\* executed nothing.
C5_NoShellBlockIsFatal ==
  (Extracted /\ ~HasShellBlock(raw_output)) =>
    /\ bash_block = <<>>
    /\ pc \in {"extracted", "exited"}
    /\ commands = <<>>
    /\ printed = <<>>
    /\ attempted = <<>>
    /\ Exited => exitCode = <<1>>

C5_Witness ==
  /\ Exited
  /\ raw_output = join(<<LnGitA, LnPy, LnGitA, LnBare>>)
  /\ exitCode = <<1>>
  /\ Last(messages) = "extract-failed"

\* C6: a response with a fenced block opened by an accepted tag extracts to
\* the trimmed inner text of the first such block, also when blocks with
\* other tags come first.
C6_FirstShellBlockReturned ==
  (Extracted /\ HasShellBlock(raw_output)) =>
    bash_block = FirstShellBlockText(raw_output)

HasGitPrefix(line) == startswith(line, GIT_PREFIX)

StrippedLines(text) ==
  LET ls == splitlines(text) IN [i \in 1..Len(ls) |-> strip(ls[i])]

\* C7: parse_commands returns exactly the trimmed lines that start with
\* "git ", in their order: blank lines, comment lines and lines without the
\* prefix are dropped wherever they stand, and N qualifying lines give N
\* commands.
C7_ParseKeepsGitLines ==
  Parsed =>
    /\ commands = SelectSeq(StrippedLines(bash_block), HasGitPrefix)
    /\ \A i \in 1..Len(commands) :
         /\ HasGitPrefix(commands[i])
         /\ commands[i] # <<>>
         /\ Head(commands[i]) # "#"
    /\ (\A i \in 1..Len(StrippedLines(bash_block)) :
          HasGitPrefix(StrippedLines(bash_block)[i]))
         => Len(commands) = Len(StrippedLines(bash_block))

C7_Witness ==
  /\ pc = "run"
  /\ bash_block = join(<<LnGitk, LnGitB, LnGitA>>)
  /\ commands = <<GIT_PREFIX \o <<"b">>, LnGitA>>

\* C8: a non-empty block that parses to no command is reported, runs
\* nothing whatever the apply flag, and ends with status 0; an empty block
\* ends with status 1.
C8_EmptyListIsSoft ==
  /\ (Parsed /\ commands = <<>> /\ pc # "run") =>
       /\ "no-commands" \in {messages[i] : i \in 1..Len(messages)}
       /\ attempted = <<>>
       /\ printed = <<>>
       /\ pc \in {"final", "exited"}
       /\ Exited => exitCode = <<0>>
  /\ (Extracted /\ bash_block = <<>> /\ Exited) => exitCode = <<1>>

C8_Witness ==
  /\ Exited
  /\ apply
  /\ bash_block = join(<<LnLs, LnComment>>)
  /\ commands = <<>>
  /\ exitCode = <<0>>

ScanState ==
  IF ~in_block THEN "Outside"
  ELSE IF lang_ok THEN "InsideAccepted" ELSE "InsideRejected"

AtFence == idx <= Len(textLines) /\ IsFence(textLines[idx])

\* what the scanner returns: the inner text of the block the first fence
\* line opens, when its tag is accepted, and nothing otherwise
FirstBlockText(text) ==
  LET ls == splitlines(text) IN
    IF FencePos(ls) = {} THEN <<>>
    ELSE LET o == SetMin(FencePos(ls)) IN
      IF ShellTagged(ls[o]) THEN InnerText(ls, o) ELSE <<>>

C9_ScanStep ==
  /\ (pc = "extract" /\ ScanState = "Outside") =>
       /\ lines' = lines
       /\ IF AtFence
          THEN in_block' /\ lang_ok' = ShellTagged(textLines[idx]) /\ pc' = "extract"
          ELSE ~in_block'
  /\ (pc = "extract" /\ ScanState = "InsideAccepted") =>
       /\ in_block' /\ lang_ok'
       /\ IF AtFence THEN pc' = "extracted" /\ lines' = lines
          ELSE IF idx <= Len(textLines)
               THEN lines' = Append(lines, textLines[idx]) /\ pc' = "extract"
               ELSE lines' = lines
  /\ (pc = "extract" /\ ScanState = "InsideRejected") =>
       /\ in_block' /\ ~lang_ok'
       /\ lines' = lines
       /\ AtFence => pc' = "extracted"
  /\ pc # "extract" => (lines' = lines /\ in_block' = in_block /\ lang_ok' = lang_ok)
  /\ (Extracted /\ pc # "extracted") => bash_block' = bash_block

PipelineOrder ==
  <<"rev-parse", "status --porcelain", "diff --stat", "status --short", "diff",
    "status -sb">>

EarlyFailures ==
  {"missing-key", "git-error", "not-a-repository", "llm-exception", "extract-failed"}

\* C10: a run follows the pipeline once: at most one model request, sent
\* only after stat, status and diff were gathered in that order, and a
\* failure before command execution ends the run with no retry and no
\* parsed command executed.
C10_LinearPipeline ==
  /\ Len(llmRequests) <= 1
  /\ \A i, j \in 1..Len(gitCalls) : i < j => gitCalls[i].cmd # gitCalls[j].cmd
  /\ Len(GitCmds) <= Len(PipelineOrder)
  /\ GitCmds = SubSeq(PipelineOrder, 1, Len(GitCmds))
  /\ llmRequests # <<>> =>
       /\ Len(gitCalls) >= 5
       /\ \A i \in 1..5 : gitCalls[i] = [cmd |-> PipelineOrder[i], rc |-> 0]
  /\ \A i \in 1..Len(gitCalls) :
       (gitCalls[i].rc # 0 /\ gitCalls[i].cmd # "status -sb") =>
         (i = Len(gitCalls) /\ Exited /\ exitCode = <<gitCalls[i].rc>>)
  /\ (Exited /\ Last(messages) \in EarlyFailures) =>
       (attempted = <<>> /\ exitCode # <<0>>)

C10_Witness ==
  /\ Exited
  /\ apply
  /\ Len(llmRequests) = 1
  /\ Last(messages) = "extract-failed"
  /\ Len(gitCalls) = 5

====
